---- MODULE Spec2Model ----
(***************************************************************************)
(* Bounded 2-D random walk: Entorno (src/entorno.py) and RandomWalk        *)
(* (src/random_walk.py).                                                   *)
(*                                                                         *)
(* The state is one Entorno and one RandomWalk built on it.  Every public  *)
(* method of RandomWalk is one action that runs the whole method.  The     *)
(* process-wide pseudorandom generator is the input of a call: `sorteo` is *)
(* the stream of indices that random.choice draws during that call, given  *)
(* as one period of an infinite periodic stream.                           *)
(***************************************************************************)
EXTENDS Integers, Sequences, FiniteSets, TLC

\* ------------------------------------------------------------------ bounds
\* Sides of the rectangle range over 1..MaxLado.
MaxLado == 3
\* Explicit max_intentos arguments range over -1..MaxIntentos.
MaxIntentos == 2
\* num_pasos arguments range over -1..MaxNumPasos.
MaxNumPasos == 3
\* A stream of draws is periodic with a period of at most MaxPeriodo.
MaxPeriodo == 2
\* Where distances are measured, a walk makes at most MaxPasosDistancia steps.
MaxPasosDistancia == 7
\* Where simular is called again after it failed, it is called while fewer
\* than MaxFallidas of its realizar_paso calls have failed.
MaxFallidas == 2
\* realizar_paso and simular are called only while the walk has made fewer
\* than MaxSorteados draws since it was built or reset.
MaxSorteados == 3

\* ----------------------------------------------------------------- Entorno
\* Python's None (the default of pos_inicial).
None == <<>>

\* Entorno.__init__: the start defaults to the centre, and a supplied start
\* is stored as it is (it is not validated).
EntornoInit(ancho, alto, pos_inicial) ==
    [ancho |-> ancho,
     alto |-> alto,
     pos_inicial |-> IF pos_inicial = None
                     THEN <<ancho \div 2, alto \div 2>>
                     ELSE pos_inicial]

\* es_posicion_valida without the lower bounds.
es_posicion_valida_SinCotaInferior(ent, x, y) ==
    x < ent.ancho /\ y < ent.alto

\* es_posicion_valida with the upper bounds included.
es_posicion_valida_Inclusiva(ent, x, y) ==
    0 <= x /\ x <= ent.ancho /\ 0 <= y /\ y <= ent.alto

\* es_posicion_valida with the lower bounds excluded.
es_posicion_valida_Estricta(ent, x, y) ==
    0 < x /\ x < ent.ancho /\ 0 < y /\ y < ent.alto

\* Entorno.es_posicion_valida
es_posicion_valida(ent, x, y) ==
    0 <= x /\ x < ent.ancho /\ 0 <= y /\ y < ent.alto

\* Entorno.obtener_dimensiones
obtener_dimensiones(ent) == <<ent.ancho, ent.alto>>

\* -------------------------------------------------------------- RandomWalk
\* DIRECCIONES with a diagonal in the place of derecha.
DIRECCIONES_Diagonal == << <<0, -1>>, <<0, 1>>, <<-1, 0>>, <<1, 1>> >>

\* DIRECCIONES with no displacement in the place of derecha.
DIRECCIONES_Quieto == << <<0, -1>>, <<0, 1>>, <<-1, 0>>, <<0, 0>> >>

\* RandomWalk.DIRECCIONES: arriba, abajo, izquierda, derecha.
DIRECCIONES == << <<0, -1>>, <<0, 1>>, <<-1, 0>>, <<1, 0>> >>

\* A default of one attempt: no retry inside simular.
MAX_INTENTOS_UnSolo == 2 - 1

\* The default of realizar_paso's max_intentos; simular never passes another.
MAX_INTENTOS_DEFECTO == 1000

\* The value drawn by the k-th draw (k = 0, 1, ...) of a periodic stream.
Sorteado(sorteo, k) == sorteo[(k % Len(sorteo)) + 1]

\* RandomWalk._obtener_direccion_aleatoria: random.choice(DIRECCIONES) picks
\* the element at the index the generator draws.
obtener_direccion_aleatoria(sorteo, k) == DIRECCIONES[Sorteado(sorteo, k) + 1]

\* RandomWalk.__init__ and RandomWalk.reiniciar build the same fields.
RandomWalkInit(ent) ==
    [posicion_actual |-> ent.pos_inicial,
     camino |-> <<ent.pos_inicial>>,
     pasos_realizados |-> 0,
     intentos_bloqueados |-> 0]

\* reiniciar that leaves intentos_bloqueados as it is.
reiniciar_SinBloqueados(ent, w) ==
    [posicion_actual |-> ent.pos_inicial,
     camino |-> <<ent.pos_inicial>>,
     pasos_realizados |-> 0,
     intentos_bloqueados |-> w.intentos_bloqueados]

reiniciar(ent, w) ==
    [posicion_actual |-> ent.pos_inicial,
     camino |-> <<ent.pos_inicial>>,
     pasos_realizados |-> 0,
     intentos_bloqueados |-> 0]

\* realizar_paso computes the candidate of a draw from the current position,
\* which no rejected attempt changes.
Candidato(w, direccion) ==
    <<w.posicion_actual[1] + direccion[1], w.posicion_actual[2] + direccion[2]>>

\* The test of the `if` in realizar_paso's loop on attempt i (0, 1, ...) of a
\* call that starts at draw k of the stream.
IntentoValido(ent, w, sorteo, k, i) ==
    LET c == Candidato(w, obtener_direccion_aleatoria(sorteo, k + i))
    IN  es_posicion_valida(ent, c[1], c[2])

\* The valid branch without `pasos_realizados += 1`.
PasoValido_SinContar(w, nueva, bloqueados) ==
    [posicion_actual |-> nueva,
     camino |-> Append(w.camino, nueva),
     pasos_realizados |-> w.pasos_realizados,
     intentos_bloqueados |-> w.intentos_bloqueados + bloqueados]

\* The valid branch on a counter of blocked attempts that is per call.
PasoValido_PorPaso(w, nueva, bloqueados) ==
    [posicion_actual |-> nueva,
     camino |-> Append(w.camino, nueva),
     pasos_realizados |-> w.pasos_realizados + 1,
     intentos_bloqueados |-> bloqueados]

\* The valid branch counting the accepted attempt as blocked too.
PasoValido_CuentaElValido(w, nueva, bloqueados) ==
    [posicion_actual |-> nueva,
     camino |-> Append(w.camino, nueva),
     pasos_realizados |-> w.pasos_realizados + 1,
     intentos_bloqueados |-> w.intentos_bloqueados + bloqueados + 1]

\* The branch of the loop taken on a valid candidate: the move is committed
\* and the call returns True.  bloqueados is the number of attempts rejected
\* before it, each of which added 1 to intentos_bloqueados.
PasoValido(w, nueva, bloqueados) ==
    [posicion_actual |-> nueva,
     camino |-> Append(w.camino, nueva),
     pasos_realizados |-> w.pasos_realizados + 1,
     intentos_bloqueados |-> w.intentos_bloqueados + bloqueados]

\* A failed call that records the position it stayed at.
PasoAgotado_Anota(w, intentos) ==
    [w EXCEPT !.intentos_bloqueados = @ + intentos,
              !.camino = Append(@, w.posicion_actual)]

\* A failed call that rolls its blocked attempts back.
PasoAgotado_Revierte(w, intentos) == w

\* The state a call that returns False leaves: every one of its attempts
\* was rejected and counted.
PasoAgotado(w, intentos) ==
    [w EXCEPT !.intentos_bloqueados = @ + intentos]

\* A loop that does not look at max_intentos.
IntentosDistintos_SinTope(max_intentos, sorteo) == Len(sorteo)

\* A loop that tests after its first attempt (do ... while).
IntentosDistintos_AlMenosUno(max_intentos, sorteo) ==
    IF max_intentos < 1 THEN 1
    ELSE IF max_intentos < Len(sorteo) THEN max_intentos ELSE Len(sorteo)

\* The attempts of one call whose tests can differ.  A rejected attempt
\* leaves the position as it was and the stream repeats after Len(sorteo)
\* draws, so attempt i + Len(sorteo) tests the candidate attempt i tested:
\* if none of the first Len(sorteo) attempts is valid, no later one is.
IntentosDistintos(max_intentos, sorteo) ==
    IF max_intentos < Len(sorteo) THEN max_intentos ELSE Len(sorteo)

\* RandomWalk.realizar_paso(max_intentos), started at draw k of the stream.
\* The while loop makes attempt i when intentos_locales = i < max_intentos,
\* that is when attempts 0..i-1 were all rejected; it returns True at the
\* first attempt whose candidate is valid and False when there is none among
\* attempts 0..max_intentos-1.  The result is the walk after the call, the
\* value returned and the number of draws made so far.
realizar_paso(ent, w, max_intentos, sorteo, k) ==
    LET n == IntentosDistintos(max_intentos, sorteo)
    IN  IF \E i \in 0..(n - 1) : IntentoValido(ent, w, sorteo, k, i)
        THEN LET i == CHOOSE j \in 0..(n - 1) :
                          /\ IntentoValido(ent, w, sorteo, k, j)
                          /\ \A h \in 0..(j - 1) :
                                 ~IntentoValido(ent, w, sorteo, k, h)
                 nueva == Candidato(w,
                              obtener_direccion_aleatoria(sorteo, k + i))
             IN  [w |-> PasoValido(w, nueva, i), exito |-> TRUE,
                  k |-> k + i + 1]
        ELSE LET intentos == IF max_intentos > 0 THEN max_intentos ELSE 0
             IN  [w |-> PasoAgotado(w, intentos), exito |-> FALSE,
                  k |-> k + intentos]

\* The Manhattan distance without abs().
calcular_distancia_manhattan_SinAbs(ent, w) ==
    (w.posicion_actual[1] - ent.pos_inicial[1])
    + (w.posicion_actual[2] - ent.pos_inicial[2])

\* RandomWalk._calcular_distancia_manhattan
Abs(n) == IF n < 0 THEN -n ELSE n

calcular_distancia_manhattan(ent, w) ==
    Abs(w.posicion_actual[1] - ent.pos_inicial[1])
    + Abs(w.posicion_actual[2] - ent.pos_inicial[2])

\* RandomWalk._calcular_distancia_euclidiana: the square root of a sum of
\* squares, kept as its radicand (the root itself is a float).
calcular_distancia_euclidiana(ent, w) ==
    [raiz_de |-> (w.posicion_actual[1] - ent.pos_inicial[1])
                    * (w.posicion_actual[1] - ent.pos_inicial[1])
                 + (w.posicion_actual[2] - ent.pos_inicial[2])
                    * (w.posicion_actual[2] - ent.pos_inicial[2])]

\* RandomWalk.obtener_estadisticas: the dict returned; camino.copy() is a
\* value of its own.
obtener_estadisticas(ent, w) ==
    [pasos_realizados |-> w.pasos_realizados,
     intentos_bloqueados |-> w.intentos_bloqueados,
     posicion_inicial |-> ent.pos_inicial,
     posicion_final |-> w.posicion_actual,
     camino |-> w.camino,
     distancia_euclidiana |-> calcular_distancia_euclidiana(ent, w),
     distancia_manhattan |-> calcular_distancia_manhattan(ent, w)]

\* obtener_estadisticas that returns self.camino itself.
camino_devuelto_SinCopy == TRUE

\* Whether the list under 'camino' in the dict obtener_estadisticas returns
\* is the list object the walk appends to: self.camino.copy() is a new list.
camino_devuelto_es_el_del_paseo == FALSE

\* The dict a caller keeps, after the walk appended to its own list in place
\* (self.camino.append) and so holds the list w.camino.
TrasAppend(inst, w) ==
    IF inst.mismo_objeto THEN [inst EXCEPT !.dict.camino = w.camino] ELSE inst

\* simular without the `break`.
Continua_Siempre(exito) == TRUE

\* What simular does after one realizar_paso returned: `break` when the step
\* failed, the next iteration otherwise.
Continua(exito) == exito

\* The test of simular's summary line after a step that succeeded:
\* `not mostrar_progreso and (paso + 1) % mostrar_cada == 0`.  `and` skips
\* the division when mostrar_progreso is True; otherwise a mostrar_cada of 0
\* raises ZeroDivisionError.  The value of the test only decides a print.
ProgresoLanza(mostrar_progreso, mostrar_cada) ==
    ~mostrar_progreso /\ mostrar_cada = 0

\* The for loop of simular: range(num_pasos), one realizar_paso with the
\* default max_intentos per iteration.  traza collects, per realizar_paso
\* call, the value it returned, the invalid candidates it counted and the
\* draws it made; error tells whether the loop was left by an exception.
RECURSIVE BuclePasos(_, _, _, _, _, _, _, _, _)
BuclePasos(ent, w, num_pasos, mostrar_progreso, mostrar_cada, paso, sorteo, k, traza) ==
    IF paso < num_pasos
    THEN LET r == realizar_paso(ent, w, MAX_INTENTOS_DEFECTO, sorteo, k)
             t == Append(traza,
                         [exito |-> r.exito,
                          bloqueados |-> r.w.intentos_bloqueados
                                           - w.intentos_bloqueados,
                          sorteados |-> r.k - k])
         IN  IF Continua(r.exito)
             THEN IF ProgresoLanza(mostrar_progreso, mostrar_cada)
                  THEN [w |-> r.w, k |-> r.k, traza |-> t, error |-> TRUE]
                  ELSE BuclePasos(ent, r.w, num_pasos, mostrar_progreso,
                                  mostrar_cada, paso + 1, sorteo, r.k, t)
             ELSE [w |-> r.w, k |-> r.k, traza |-> t, error |-> FALSE]
    ELSE [w |-> w, k |-> k, traza |-> traza, error |-> FALSE]

\* What a simular call that raised ZeroDivisionError gives its caller: no
\* dict.
ZeroDivisionError == [error |-> "ZeroDivisionError"]

\* A simular that begins by reiniciar.
simular_Reinicia(ent, w, num_pasos, mostrar_progreso, mostrar_cada, sorteo) ==
    LET r == BuclePasos(ent, reiniciar(ent, w), num_pasos, mostrar_progreso,
                        mostrar_cada, 0, sorteo, 0, <<>>)
    IN  [w |-> r.w, k |-> r.k, traza |-> r.traza,
         estadisticas |-> IF r.error THEN ZeroDivisionError
                          ELSE obtener_estadisticas(ent, r.w)]

\* RandomWalk.simular(num_pasos, mostrar_progreso, mostrar_cada)
simular(ent, w, num_pasos, mostrar_progreso, mostrar_cada, sorteo) ==
    LET r == BuclePasos(ent, w, num_pasos, mostrar_progreso, mostrar_cada,
                        0, sorteo, 0, <<>>)
    IN  [w |-> r.w, k |-> r.k, traza |-> r.traza,
         estadisticas |-> IF r.error THEN ZeroDivisionError
                          ELSE obtener_estadisticas(ent, r.w)]

\* ------------------------------------------------------------------- state
VARIABLES
    entorno,              \* the Entorno: ancho, alto, pos_inicial
    posicion_actual,      \* RandomWalk.posicion_actual
    camino,               \* RandomWalk.camino
    pasos_realizados,     \* RandomWalk.pasos_realizados
    intentos_bloqueados,  \* RandomWalk.intentos_bloqueados
    llamada,              \* the last call: its method, argument and stream
    retorno,              \* what the last call returned
    traza,                \* the realizar_paso calls the last call made
    antes,                \* the walk as it was when the last call began
    instantanea           \* the dict of statistics the caller keeps

vars == <<entorno, posicion_actual, camino, pasos_realizados,
          intentos_bloqueados, llamada, retorno, traza, antes, instantanea>>

\* The walk as one record, as the operators above take it.
Walk ==
    [posicion_actual |-> posicion_actual,
     camino |-> camino,
     pasos_realizados |-> pasos_realizados,
     intentos_bloqueados |-> intentos_bloqueados]

\* The fields of the walk after a call.
Asigna(w) ==
    /\ posicion_actual' = w.posicion_actual
    /\ camino' = w.camino
    /\ pasos_realizados' = w.pasos_realizados
    /\ intentos_bloqueados' = w.intentos_bloqueados

\* ------------------------------------------------------------------ inputs
Lados == 1..MaxLado

\* Starts a caller supplies: a corner of the rectangle and a cell left of it.
InicialesDadas == {<<0, 0>>, <<-1, 0>>}

\* Streams of draws: every period of length 1..MaxPeriodo over the indices
\* of DIRECCIONES.
Sorteos == UNION {[1..n -> 0..3] : n \in 1..MaxPeriodo}

SinSorteo == <<>>

\* max_intentos arguments: the small ones, 50 and the default.
ArgsMaxIntentos == (-1..MaxIntentos) \cup {50, MAX_INTENTOS_DEFECTO}

ArgsNumPasos == -1..MaxNumPasos

\* The display arguments of simular, <<mostrar_progreso, mostrar_cada>>: the
\* defaults, a summary line every 10 steps, and a mostrar_cada of 0.
ArgsMostrar == {<<TRUE, 10>>, <<FALSE, 10>>, <<TRUE, 0>>, <<FALSE, 0>>}

\* ----------------------------------------------------------------- actions
\* No call is being observed: the caller holds no result.
Ninguna == [metodo |-> "ninguna", arg |-> 0, sorteo |-> SinSorteo]

SinRetorno == [none |-> TRUE]

\* The draws the walk has made since it was built or reset.
Sorteados == pasos_realizados + intentos_bloqueados

\* The caller keeps no dict of statistics.
SinInstantanea == [dict |-> SinRetorno, mismo_objeto |-> FALSE]

\* Entorno(ancho, alto, pos_inicial) and RandomWalk(entorno).
Init ==
    \E ancho \in Lados, alto \in Lados, p \in {None} \cup InicialesDadas :
        LET ent == EntornoInit(ancho, alto, p)
            w == RandomWalkInit(ent)
        IN  /\ entorno = ent
            /\ posicion_actual = w.posicion_actual
            /\ camino = w.camino
            /\ pasos_realizados = w.pasos_realizados
            /\ intentos_bloqueados = w.intentos_bloqueados
            /\ llamada = Ninguna
            /\ retorno = SinRetorno
            /\ traza = <<>>
            /\ antes = w
            /\ instantanea = SinInstantanea

\* walk.realizar_paso(max_intentos)
RealizarPaso ==
    /\ llamada = Ninguna
    /\ Sorteados < MaxSorteados
    /\ \E max_intentos \in ArgsMaxIntentos, sorteo \in Sorteos :
         \E r \in {realizar_paso(entorno, Walk, max_intentos, sorteo, 0)} :
            /\ Asigna(r.w)
            /\ llamada' = [metodo |-> "realizar_paso", arg |-> max_intentos,
                           sorteo |-> sorteo]
            /\ retorno' = [exito |-> r.exito]
            /\ traza' = <<[exito |-> r.exito,
                           bloqueados |-> r.w.intentos_bloqueados
                                            - intentos_bloqueados,
                           sorteados |-> r.k]>>
    /\ antes' = Walk
    /\ UNCHANGED <<entorno, instantanea>>

\* walk.simular(num_pasos, mostrar_progreso, mostrar_cada); an exception it
\* raises reaches the caller, the walk staying as the loop left it.
Simular ==
    /\ llamada = Ninguna
    /\ Sorteados < MaxSorteados
    /\ \E num_pasos \in ArgsNumPasos, mostrar \in ArgsMostrar,
          sorteo \in Sorteos :
         \E r \in {simular(entorno, Walk, num_pasos, mostrar[1], mostrar[2],
                           sorteo)} :
            /\ Asigna(r.w)
            /\ llamada' = [metodo |-> "simular", arg |-> num_pasos,
                           sorteo |-> sorteo]
            /\ retorno' = r.estadisticas
            /\ traza' = r.traza
    /\ antes' = Walk
    /\ UNCHANGED <<entorno, instantanea>>

\* walk.obtener_estadisticas()
ObtenerEstadisticas ==
    /\ llamada = Ninguna
    /\ Asigna(Walk)
    /\ llamada' = [metodo |-> "obtener_estadisticas", arg |-> 0,
                   sorteo |-> SinSorteo]
    /\ retorno' = obtener_estadisticas(entorno, Walk)
    /\ traza' = <<>>
    /\ antes' = Walk
    /\ UNCHANGED <<entorno, instantanea>>

\* walk.reiniciar()
Reiniciar ==
    /\ llamada = Ninguna
    /\ Asigna(reiniciar(entorno, Walk))
    /\ llamada' = [metodo |-> "reiniciar", arg |-> 0, sorteo |-> SinSorteo]
    /\ retorno' = SinRetorno
    /\ traza' = <<>>
    /\ antes' = Walk
    /\ UNCHANGED <<entorno, instantanea>>

\* The caller is done with the result of the last call; the walk is as the
\* call left it.
Retorna ==
    /\ llamada # Ninguna
    /\ llamada' = Ninguna
    /\ retorno' = SinRetorno
    /\ traza' = <<>>
    /\ antes' = Walk
    /\ UNCHANGED <<entorno, posicion_actual, camino, pasos_realizados,
                   intentos_bloqueados, instantanea>>

Next ==
    \/ RealizarPaso
    \/ Simular
    \/ ObtenerEstadisticas
    \/ Reiniciar
    \/ Retorna

Spec == Init /\ [][Next]_vars

\* ------------------------------------------- a caller that keeps the dict
\* The calls below are the calls above, made by a caller that keeps the dict
\* obtener_estadisticas returned while it goes on using the walk; only the
\* method of the last call is observed.
Observa(metodo) ==
    /\ llamada' = [metodo |-> metodo, arg |-> 0, sorteo |-> SinSorteo]
    /\ UNCHANGED <<entorno, retorno, traza, antes>>

\* estadisticas = walk.obtener_estadisticas(), once
TomaEstadisticas ==
    /\ instantanea = SinInstantanea
    /\ Asigna(Walk)
    /\ instantanea' = [dict |-> obtener_estadisticas(entorno, Walk),
                       mismo_objeto |-> camino_devuelto_es_el_del_paseo]
    /\ Observa("obtener_estadisticas")

\* walk.realizar_paso(), the dict kept
PasoConInstantanea ==
    /\ Sorteados < MaxSorteados
    /\ \E sorteo \in Sorteos :
         \E r \in {realizar_paso(entorno, Walk, MAX_INTENTOS_DEFECTO,
                                 sorteo, 0)} :
            /\ Asigna(r.w)
            /\ instantanea' = TrasAppend(instantanea, r.w)
    /\ Observa("realizar_paso")

\* estadisticas['camino'].append((0, 0)), by the caller, once
ModificaInstantanea ==
    /\ instantanea # SinInstantanea
    /\ Len(instantanea.dict.camino) = instantanea.dict.pasos_realizados + 1
    /\ instantanea' = [instantanea EXCEPT
                          !.dict.camino = Append(@, <<0, 0>>)]
    /\ posicion_actual' = posicion_actual
    /\ camino' = IF instantanea.mismo_objeto
                 THEN Append(camino, <<0, 0>>)
                 ELSE camino
    /\ pasos_realizados' = pasos_realizados
    /\ intentos_bloqueados' = intentos_bloqueados
    /\ Observa("modifica")

NextInstantanea ==
    \/ TomaEstadisticas
    \/ PasoConInstantanea
    \/ ModificaInstantanea

SpecInstantanea == Init /\ [][NextInstantanea]_vars

\* ------------------------------------------------- distances along a walk
\* Entorno(4, 5) with the default start (2, 2), Entorno(4, 5, (0, 0)), and a
\* RandomWalk on it: (3, 4) is the corner opposite to (0, 0).
InitDistancias ==
    \E p \in {None, <<0, 0>>} :
        LET ent == EntornoInit(4, 5, p)
            w == RandomWalkInit(ent)
        IN  /\ entorno = ent
            /\ posicion_actual = w.posicion_actual
            /\ camino = w.camino
            /\ pasos_realizados = w.pasos_realizados
            /\ intentos_bloqueados = w.intentos_bloqueados
            /\ llamada = Ninguna
            /\ retorno = SinRetorno
            /\ traza = <<>>
            /\ antes = w
            /\ instantanea = SinInstantanea

\* walk.realizar_paso(), every draw of the call being the same direction
PasoEnUnaDireccion ==
    /\ pasos_realizados < MaxPasosDistancia
    /\ intentos_bloqueados = 0
    /\ \E d \in 0..3 :
         \E r \in {realizar_paso(entorno, Walk, MAX_INTENTOS_DEFECTO,
                                 <<d>>, 0)} :
            /\ Asigna(r.w)
            /\ llamada' = [metodo |-> "realizar_paso",
                           arg |-> MAX_INTENTOS_DEFECTO, sorteo |-> <<d>>]
    /\ retorno' = SinRetorno
    /\ UNCHANGED <<entorno, traza, antes, instantanea>>

\* walk.obtener_estadisticas(), where the walk has arrived
MideDistancias ==
    /\ llamada.metodo # "obtener_estadisticas"
    /\ Asigna(Walk)
    /\ llamada' = [metodo |-> "obtener_estadisticas", arg |-> 0,
                   sorteo |-> SinSorteo]
    /\ retorno' = obtener_estadisticas(entorno, Walk)
    /\ UNCHANGED <<entorno, traza, antes, instantanea>>

NextDistancias == PasoEnUnaDireccion \/ MideDistancias

SpecDistancias == InitDistancias /\ [][NextDistancias]_vars

\* --------------------------------------------- simular, called repeatedly
\* walk.simular(num_pasos) on a walk as earlier simular calls left it, a
\* call that stopped at a failed step included; every draw of a call is the
\* same direction.
SimularDeNuevo ==
    /\ llamada = Ninguna
    /\ pasos_realizados < MaxSorteados
    /\ intentos_bloqueados < MaxFallidas * MAX_INTENTOS_DEFECTO
    /\ \E num_pasos \in ArgsNumPasos, mostrar \in ArgsMostrar,
          sorteo \in [{1} -> 0..3] :
         \E r \in {simular(entorno, Walk, num_pasos, mostrar[1], mostrar[2],
                           sorteo)} :
            /\ Asigna(r.w)
            /\ llamada' = [metodo |-> "simular", arg |-> num_pasos,
                           sorteo |-> sorteo]
            /\ retorno' = r.estadisticas
            /\ traza' = r.traza
    /\ antes' = Walk
    /\ UNCHANGED <<entorno, instantanea>>

NextSimularDeNuevo == SimularDeNuevo \/ Retorna

SpecSimularDeNuevo == Init /\ [][NextSimularDeNuevo]_vars

\* ------------------------------------------------------------ properties
\* The four unit displacements and the rectangle, written out.
Desplazamientos == {<<0, -1>>, <<0, 1>>, <<-1, 0>>, <<1, 0>>}

EnRectangulo(p) ==
    0 <= p[1] /\ p[1] < entorno.ancho /\ 0 <= p[2] /\ p[2] < entorno.alto

DesplazamientoDe(indice) ==
    CASE indice = 0 -> <<0, -1>>
      [] indice = 1 -> <<0, 1>>
      [] indice = 2 -> <<-1, 0>>
      [] indice = 3 -> <<1, 0>>

\* The candidate the i-th draw (i = 0, 1, ...) of a stream gives at p.
CandidatoDe(p, sorteo, i) ==
    LET d == DesplazamientoDe(sorteo[(i % Len(sorteo)) + 1])
    IN  <<p[1] + d[1], p[2] + d[2]>>

Recien == [posicion_actual |-> entorno.pos_inicial,
           camino |-> <<entorno.pos_inicial>>,
           pasos_realizados |-> 0,
           intentos_bloqueados |-> 0]

\* The last call raised an exception instead of returning.
Lanzo == "error" \in DOMAIN retorno

Exitos == Cardinality({i \in DOMAIN traza : traza[i].exito})

Fallos == Cardinality({i \in DOMAIN traza : ~traza[i].exito})

\* C1: in every reachable state len(camino) = pasos_realizados + 1, camino
\* starts at the start of the Entorno and ends at posicion_actual.
C1_CaminoCoherente ==
    /\ Len(camino) = pasos_realizados + 1
    /\ camino[1] = entorno.pos_inicial
    /\ camino[Len(camino)] = posicion_actual

\* C1 witness: steps were taken, candidates were rejected, and the walk is
\* away from its start.
C1_Testigo ==
    /\ pasos_realizados >= 2
    /\ intentos_bloqueados >= 1
    /\ posicion_actual # entorno.pos_inicial

\* C2: when the start lies inside the rectangle, every element of camino
\* and posicion_actual lie inside it.
C2_Contenido ==
    EnRectangulo(entorno.pos_inicial) =>
        /\ \A i \in DOMAIN camino : EnRectangulo(camino[i])
        /\ EnRectangulo(posicion_actual)

\* C2 witness: a walk from a start inside that moved twice and hit a wall.
C2_Testigo ==
    /\ EnRectangulo(entorno.pos_inicial)
    /\ Len(camino) >= 3
    /\ intentos_bloqueados >= 1

\* C3: consecutive elements of camino differ by one of the four unit
\* displacements.
C3_Continuo ==
    \A i \in 2..Len(camino) :
        <<camino[i][1] - camino[i - 1][1],
          camino[i][2] - camino[i - 1][2]>> \in Desplazamientos

\* C3 witness: a path with a horizontal and a vertical move.
C3_Testigo ==
    /\ Len(camino) >= 3
    /\ camino[3][1] # camino[1][1]
    /\ camino[3][2] # camino[1][2]

\* C4: a realizar_paso call that returns True appends exactly one element
\* to camino, keeping the earlier elements as a prefix, and adds 1 to
\* pasos_realizados; one that returns False changes neither the length of
\* camino nor pasos_realizados.  The same holds of the realizar_paso calls
\* simular makes.
C4_CrecimientoDelCamino ==
    (llamada.metodo \in {"realizar_paso", "simular"}) =>
        /\ llamada.metodo = "realizar_paso" =>
              /\ Len(traza) = 1
              /\ traza[1].exito = retorno.exito
              /\ Exitos = (IF retorno.exito THEN 1 ELSE 0)
        /\ Len(camino) = Len(antes.camino) + Exitos
        /\ SubSeq(camino, 1, Len(antes.camino)) = antes.camino
        /\ pasos_realizados = antes.pasos_realizados + Exitos

\* C4 witness: a realizar_paso call that succeeded after a rejected attempt,
\* on a walk that had moved before.
C4_Testigo ==
    /\ llamada.metodo = "realizar_paso"
    /\ retorno.exito
    /\ traza[1].bloqueados >= 1
    /\ Len(camino) >= 3

\* C5: realizar_paso(max_intentos) returns False exactly when the first
\* max_intentos candidates drawn are all invalid, and then posicion_actual,
\* camino and pasos_realizados are as before the call and
\* intentos_bloqueados is larger by max_intentos (a count, >= 0).
C5_FallaSoloAgotado ==
    (llamada.metodo = "realizar_paso") =>
        /\ retorno.exito = FALSE <=>
              \A i \in 0..(llamada.arg - 1) :
                  ~EnRectangulo(CandidatoDe(antes.posicion_actual,
                                            llamada.sorteo, i))
        /\ (~retorno.exito /\ llamada.arg >= 0) =>
              /\ posicion_actual = antes.posicion_actual
              /\ camino = antes.camino
              /\ pasos_realizados = antes.pasos_realizados
              /\ intentos_bloqueados
                    = antes.intentos_bloqueados + llamada.arg

\* C5 witness: a realizar_paso(2) that failed on a walk that had moved.
C5_Testigo ==
    /\ llamada.metodo = "realizar_paso"
    /\ llamada.arg = 2
    /\ ~retorno.exito
    /\ antes.pasos_realizados >= 1
    /\ intentos_bloqueados = antes.intentos_bloqueados + 2

\* C6: in the 1x1 Entorno with start (0,0) no move is ever made, and every
\* realizar_paso(max_intentos) with max_intentos >= 1 returns False and adds
\* exactly max_intentos to intentos_bloqueados.
C6_UnaCelda ==
    (entorno = [ancho |-> 1, alto |-> 1, pos_inicial |-> <<0, 0>>]) =>
        /\ pasos_realizados = 0
        /\ camino = << <<0, 0>> >>
        /\ (llamada.metodo = "realizar_paso" /\ llamada.arg >= 1) =>
              /\ ~retorno.exito
              /\ intentos_bloqueados
                    = antes.intentos_bloqueados + llamada.arg

\* C6 witness: realizar_paso(50) in the 1x1 Entorno, after an earlier
\* failed call, added 50.
C6_Testigo ==
    /\ entorno = [ancho |-> 1, alto |-> 1, pos_inicial |-> <<0, 0>>]
    /\ llamada.metodo = "realizar_paso"
    /\ llamada.arg = 50
    /\ antes.intentos_bloqueados >= 1
    /\ intentos_bloqueados = antes.intentos_bloqueados + 50

\* C7: after reiniciar the walk is as a freshly built walk on the same
\* Entorno: at the start, camino = [start], both counters 0; a second
\* reiniciar changes nothing.
C7_ReiniciarEsRecien ==
    (llamada.metodo = "reiniciar") =>
        /\ posicion_actual = entorno.pos_inicial
        /\ camino = <<entorno.pos_inicial>>
        /\ pasos_realizados = 0
        /\ intentos_bloqueados = 0
        /\ Walk = RandomWalkInit(entorno)
        /\ antes = Recien => Walk = antes

\* C7 witness: reiniciar on a walk that had moved and had been blocked.
C7_Testigo ==
    /\ llamada.metodo = "reiniciar"
    /\ antes.pasos_realizados >= 2
    /\ antes.intentos_bloqueados >= 1
    /\ antes.posicion_actual # entorno.pos_inicial

\* C8 as claimed: simular(num_pasos), num_pasos >= 0, makes at most
\* num_pasos realizar_paso calls and none after one that returned False: it
\* adds at most num_pasos to pasos_realizados, exactly num_pasos iff no call
\* failed, and at most one call fails.
C8_SimularSeDetiene ==
    (llamada.metodo = "simular" /\ llamada.arg >= 0) =>
        /\ Len(traza) <= llamada.arg
        /\ \A i \in 1..(Len(traza) - 1) : traza[i].exito
        /\ pasos_realizados - antes.pasos_realizados <= llamada.arg
        /\ pasos_realizados - antes.pasos_realizados = llamada.arg
              <=> Fallos = 0
        /\ Fallos <= 1

\* The walk simular starts from in the 2x1 scenario: freshly built at (0,0),
\* at least one step asked for, the first draw invalid, a dict returned.
C9_Escenario ==
    /\ entorno = [ancho |-> 2, alto |-> 1, pos_inicial |-> <<0, 0>>]
    /\ llamada.metodo = "simular"
    /\ ~Lanzo
    /\ llamada.arg >= 1
    /\ antes = Recien
    /\ ~EnRectangulo(CandidatoDe(<<0, 0>>, llamada.sorteo, 0))

\* C9 as claimed: in the 2x1 Entorno with start (0,0), a simular whose
\* first draw is invalid stops at it: the snapshot has pasos_realizados = 0,
\* a camino of one element and intentos_bloqueados = 1.
C9_SimularUnIntento ==
    C9_Escenario =>
        /\ retorno.pasos_realizados = 0
        /\ Len(retorno.camino) = 1
        /\ retorno.intentos_bloqueados = 1

\* C9 amended: simular takes no max_intentos; every realizar_paso call it
\* makes runs with the default of 1000 attempts, so a call inside simular
\* fails after exactly 1000 consecutive invalid draws.  In the 2x1 scenario
\* an invalid first draw does not stop simular: the snapshot has
\* pasos_realizados = 0 exactly when every draw is invalid at (0,0), and
\* then camino has one element and intentos_bloqueados = 1000.
C9_SimularMilIntentos ==
    /\ (llamada.metodo = "simular") =>
          \A i \in DOMAIN traza :
              /\ ~traza[i].exito =>
                    traza[i].bloqueados = 1000 /\ traza[i].sorteados = 1000
              /\ traza[i].exito =>
                    traza[i].bloqueados < 1000
                    /\ traza[i].sorteados = traza[i].bloqueados + 1
    /\ C9_Escenario =>
          /\ retorno.pasos_realizados = 0 <=>
                \A i \in 0..(Len(llamada.sorteo) - 1) :
                    ~EnRectangulo(CandidatoDe(<<0, 0>>, llamada.sorteo, i))
          /\ retorno.pasos_realizados = 0 =>
                /\ Len(retorno.camino) = 1
                /\ retorno.intentos_bloqueados = 1000

\* C9 witness: in the 2x1 scenario the first draw was invalid, simular went
\* on to move the agent, and its second call failed after 1000 attempts.
C9_Testigo ==
    /\ C9_Escenario
    /\ retorno.pasos_realizados = 1
    /\ retorno.intentos_bloqueados = 1001
    /\ Len(traza) = 2
    /\ ~traza[2].exito

\* C11: obtener_estadisticas changes no field of the walk and the dict it
\* returns holds the walk's values at the call; the list under 'camino' is a
\* copy: appending to it leaves the walk as it is, and a later
\* realizar_paso leaves the dict as it is.
C11_EstadisticasSoloLee ==
    [][/\ llamada'.metodo = "obtener_estadisticas" =>
             /\ Walk' = Walk
             /\ instantanea'.dict.pasos_realizados = pasos_realizados
             /\ instantanea'.dict.intentos_bloqueados = intentos_bloqueados
             /\ instantanea'.dict.posicion_inicial = entorno.pos_inicial
             /\ instantanea'.dict.posicion_final = posicion_actual
             /\ instantanea'.dict.camino = camino
       /\ llamada'.metodo = "modifica" => Walk' = Walk
       /\ llamada'.metodo = "realizar_paso" =>
             instantanea'.dict = instantanea.dict]_vars

\* C11 witness: the caller appended to the list of the dict it keeps, and
\* the walk has moved since the dict was returned.
C11_Testigo ==
    /\ instantanea # SinInstantanea
    /\ llamada.metodo = "realizar_paso"
    /\ pasos_realizados > instantanea.dict.pasos_realizados
    /\ Len(instantanea.dict.camino) = instantanea.dict.pasos_realizados + 2
    /\ instantanea.dict.pasos_realizados >= 1

\* C12: the distances in the dict are computed from the start (x0, y0) and
\* the current position (x, y): distancia_manhattan = |x-x0| + |y-y0| and
\* the square of distancia_euclidiana = (x-x0)^2 + (y-y0)^2; from (0,0) to
\* (3,4) they are 7 and 5.
C12_Distancias ==
    (llamada.metodo = "obtener_estadisticas") =>
        LET dx == posicion_actual[1] - entorno.pos_inicial[1]
            dy == posicion_actual[2] - entorno.pos_inicial[2]
        IN  /\ retorno.distancia_manhattan
                  = (IF dx < 0 THEN -dx ELSE dx) + (IF dy < 0 THEN -dy ELSE dy)
            /\ retorno.distancia_euclidiana.raiz_de = dx * dx + dy * dy
            /\ (entorno.pos_inicial = <<0, 0>> /\ posicion_actual = <<3, 4>>)
                  => /\ retorno.distancia_manhattan = 7
                     /\ retorno.distancia_euclidiana.raiz_de = 5 * 5

\* C12 witness: the distances were taken at (3,4) on a walk from (0,0).
C12_Testigo ==
    /\ llamada.metodo = "obtener_estadisticas"
    /\ entorno.pos_inicial = <<0, 0>>
    /\ posicion_actual = <<3, 4>>
    /\ retorno.posicion_final = <<3, 4>>

\* C13 as claimed: the start of every Entorno built lies in its rectangle,
\* 0 <= x < ancho and 0 <= y < alto, whether defaulted or supplied.
C13_InicioEnRectangulo ==
    EnRectangulo(entorno.pos_inicial)

\* The invalid candidates among draws off .. off+n-1 of the last call's
\* stream, taken at p.  Where only the last of them can be valid the count
\* is n or n-1; otherwise they are counted one by one.  The stream repeats
\* after Len(sorteo) draws, so the first n-1 draws are all invalid when those
\* among the first Len(sorteo) of them are.
InvalidosEn(p, off, n) ==
    LET distintos == IF n - 1 < Len(llamada.sorteo)
                     THEN n - 1 ELSE Len(llamada.sorteo)
    IN  IF n = 0 THEN 0
        ELSE IF \A i \in 0..(distintos - 1) :
                   ~EnRectangulo(CandidatoDe(p, llamada.sorteo, off + i))
             THEN IF EnRectangulo(CandidatoDe(p, llamada.sorteo, off + n - 1))
                  THEN n - 1 ELSE n
             ELSE Cardinality({i \in 0..(n - 1) :
                      ~EnRectangulo(CandidatoDe(p, llamada.sorteo, off + i))})

\* Each realizar_paso of the last call, from the j-th on, added to
\* intentos_bloqueados the number of invalid candidates among its draws; the
\* j-th begins at draw off.  Only the last realizar_paso of a call can have
\* failed, so the j-th began where the (j-1)-th arrived.
RECURSIVE CuentaLosInvalidosDesde(_, _)
CuentaLosInvalidosDesde(j, off) ==
    IF j > Len(traza) THEN TRUE
    ELSE \A p \in {camino[Len(antes.camino) + j - 1]}, o \in {off},
            n \in {traza[j].sorteados} :
            /\ traza[j].bloqueados = InvalidosEn(p, o, n)
            /\ CuentaLosInvalidosDesde(j + 1, o + n)

\* What the realizar_paso calls of the last call, from the j-th on, added to
\* intentos_bloqueados.
RECURSIVE BloqueadosDesde(_)
BloqueadosDesde(j) ==
    IF j > Len(traza) THEN 0
    ELSE traza[j].bloqueados + BloqueadosDesde(j + 1)

\* C14: intentos_bloqueados is cumulative.  A realizar_paso or simular call
\* adds to it the number of invalid candidates among the directions the call
\* drew, one per invalid candidate, and never lowers it; reading the
\* statistics leaves it; reiniciar alone sets it to 0.
C14_BloqueadosAcumula ==
    /\ intentos_bloqueados >= 0
    /\ (llamada.metodo \in {"realizar_paso", "simular"}) =>
          /\ CuentaLosInvalidosDesde(1, 0)
          /\ intentos_bloqueados
                = antes.intentos_bloqueados + BloqueadosDesde(1)
          /\ intentos_bloqueados >= antes.intentos_bloqueados
    /\ (llamada.metodo \in {"obtener_estadisticas", "ninguna"}) =>
          intentos_bloqueados = antes.intentos_bloqueados
    /\ (llamada.metodo = "reiniciar") => intentos_bloqueados = 0

\* C14 witness: a simular on a walk that already had blocked attempts made
\* two steps or more and added blocked attempts of its own.
C14_Testigo ==
    /\ llamada.metodo = "simular"
    /\ antes.intentos_bloqueados >= 1
    /\ Len(traza) >= 2
    /\ traza[1].exito
    /\ intentos_bloqueados > antes.intentos_bloqueados

\* C15: in a realizar_paso(max_intentos) call, if the first valid candidate
\* is the one of draw k+1 and k < max_intentos, the call returns True, the
\* new position is the old one plus that direction, intentos_bloqueados grows
\* by exactly k and the call draws k+1 directions, no more.
C15_PrimerValidoGana ==
    ( /\ llamada.metodo = "realizar_paso"
      /\ \E j \in 0..(llamada.arg - 1) :
            EnRectangulo(CandidatoDe(antes.posicion_actual,
                                     llamada.sorteo, j)) )
    => LET k == CHOOSE j \in 0..(llamada.arg - 1) :
                   /\ EnRectangulo(CandidatoDe(antes.posicion_actual,
                                               llamada.sorteo, j))
                   /\ \A h \in 0..(j - 1) :
                         ~EnRectangulo(CandidatoDe(antes.posicion_actual,
                                                   llamada.sorteo, h))
       IN  /\ retorno.exito
           /\ posicion_actual
                 = CandidatoDe(antes.posicion_actual, llamada.sorteo, k)
           /\ camino = Append(antes.camino, posicion_actual)
           /\ pasos_realizados = antes.pasos_realizados + 1
           /\ intentos_bloqueados = antes.intentos_bloqueados + k
           /\ traza[1].sorteados = k + 1

\* C15 witness: a realizar_paso whose first draw hit a wall and whose second
\* draw was taken, on a walk that had moved.
C15_Testigo ==
    /\ llamada.metodo = "realizar_paso"
    /\ llamada.arg >= 2
    /\ antes.pasos_realizados >= 1
    /\ ~EnRectangulo(CandidatoDe(antes.posicion_actual, llamada.sorteo, 0))
    /\ posicion_actual = CandidatoDe(antes.posicion_actual, llamada.sorteo, 1)
    /\ intentos_bloqueados = antes.intentos_bloqueados + 1

\* C16: a realizar_paso(max_intentos) call returns after drawing at most
\* max_intentos directions (none when max_intentos <= 0), and a
\* simular(num_pasos) call returns or raises after at most num_pasos
\* realizar_paso calls of at most 1000 draws each, on every Entorno, 1x1,
\* 1xN and Nx1 included.
C16_Termina ==
    /\ (llamada.metodo = "realizar_paso") =>
          /\ retorno.exito \in BOOLEAN
          /\ Len(traza) = 1
          /\ traza[1].sorteados
                <= (IF llamada.arg > 0 THEN llamada.arg ELSE 0)
    /\ (llamada.metodo = "simular") =>
          /\ Lanzo \/ retorno.pasos_realizados = pasos_realizados
          /\ Len(traza) <= (IF llamada.arg > 0 THEN llamada.arg ELSE 0)
          /\ \A i \in DOMAIN traza : traza[i].sorteados <= 1000

\* C16 witness: on the 1x1 Entorno a simular of several steps returned after
\* one realizar_paso that drew 1000 directions.
C16_Testigo ==
    /\ llamada.metodo = "simular"
    /\ entorno.ancho = 1
    /\ entorno.alto = 1
    /\ llamada.arg >= 2
    /\ Len(traza) = 1
    /\ traza[1].sorteados = 1000

\* C17: in every reachable state distancia_manhattan <= pasos_realizados and
\* the two have the same parity, so after an odd number of steps the walk is
\* not at the start.
C17_ManhattanYPasos ==
    LET m == calcular_distancia_manhattan(entorno, Walk)
    IN  /\ m <= pasos_realizados
        /\ (pasos_realizados - m) % 2 = 0
        /\ (pasos_realizados % 2 = 1) => posicion_actual # entorno.pos_inicial

\* C17 witness: after three steps the walk is one cell from the start.
C17_Testigo ==
    /\ pasos_realizados = 3
    /\ calcular_distancia_manhattan(entorno, Walk) = 1
    /\ llamada.metodo = "simular"

\* C18: on an Entorno of more than one cell whose start is inside, at every
\* reachable position at least one of the four directions leads to a valid
\* cell; with ancho = 1 the candidates to the left and to the right, and
\* with alto = 1 those above and below, are never valid.
C18_NuncaAtrapado ==
    EnRectangulo(entorno.pos_inicial) =>
        /\ (entorno.ancho >= 2 \/ entorno.alto >= 2) =>
              \E i \in DOMAIN DIRECCIONES :
                  LET c == Candidato(Walk, DIRECCIONES[i])
                  IN  es_posicion_valida(entorno, c[1], c[2])
        /\ (entorno.ancho = 1) =>
              \A x \in {posicion_actual[1] - 1, posicion_actual[1] + 1} :
                  ~es_posicion_valida(entorno, x, posicion_actual[2])
        /\ (entorno.alto = 1) =>
              \A y \in {posicion_actual[2] - 1, posicion_actual[2] + 1} :
                  ~es_posicion_valida(entorno, posicion_actual[1], y)

\* C18 witness: on an Entorno one cell wide and three high the walk moved
\* twice and was blocked by a wall.
C18_Testigo ==
    /\ entorno.ancho = 1
    /\ entorno.alto = 3
    /\ EnRectangulo(entorno.pos_inicial)
    /\ pasos_realizados >= 2
    /\ intentos_bloqueados >= 1

\* C19: realizar_paso(max_intentos) with max_intentos <= 0 draws no
\* direction, returns False and leaves the walk as it was,
\* intentos_bloqueados included; simular(num_pasos) with num_pasos <= 0
\* calls no realizar_paso and returns the statistics of the unchanged walk.
C19_SinPresupuesto ==
    /\ (llamada.metodo = "realizar_paso" /\ llamada.arg <= 0) =>
          /\ retorno.exito = FALSE
          /\ traza[1].sorteados = 0
          /\ Walk = antes
    /\ (llamada.metodo = "simular" /\ llamada.arg <= 0) =>
          /\ traza = <<>>
          /\ Walk = antes
          /\ retorno.pasos_realizados = antes.pasos_realizados
          /\ retorno.intentos_bloqueados = antes.intentos_bloqueados
          /\ retorno.posicion_final = antes.posicion_actual
          /\ retorno.camino = antes.camino

\* C19 witness: a realizar_paso(-1) on a walk that had moved and had been
\* blocked, with a first draw that is valid.
C19_Testigo ==
    /\ llamada.metodo = "realizar_paso"
    /\ llamada.arg = -1
    /\ antes.pasos_realizados >= 1
    /\ antes.intentos_bloqueados >= 1
    /\ EnRectangulo(CandidatoDe(antes.posicion_actual, llamada.sorteo, 0))

\* C20: simular does not reset the walk.  Called on a walk with
\* pasos_realizados = s, intentos_bloqueados = b and camino = p, it goes on
\* from posicion_actual: the walk's camino still begins with p and its
\* counters are >= s and >= b; the dict it returns holds that camino and
\* those counters; and the draws of its first step, after a failed simular
\* too, are tested at the position the walk was at.
C20_SimularContinua ==
    (llamada.metodo = "simular") =>
        /\ Len(camino) >= Len(antes.camino)
        /\ SubSeq(camino, 1, Len(antes.camino)) = antes.camino
        /\ pasos_realizados = antes.pasos_realizados + Exitos
        /\ intentos_bloqueados >= antes.intentos_bloqueados
        /\ ~Lanzo =>
              /\ SubSeq(retorno.camino, 1, Len(antes.camino)) = antes.camino
              /\ retorno.camino = camino
              /\ retorno.pasos_realizados >= antes.pasos_realizados
              /\ retorno.pasos_realizados = pasos_realizados
              /\ retorno.intentos_bloqueados >= antes.intentos_bloqueados
        /\ (traza # <<>>) =>
              /\ \A i \in 0..(traza[1].bloqueados - 1) :
                    ~EnRectangulo(CandidatoDe(antes.posicion_actual,
                                              llamada.sorteo, i))
              /\ traza[1].exito =>
                    camino[Len(antes.camino) + 1]
                       = CandidatoDe(antes.posicion_actual, llamada.sorteo,
                                     traza[1].bloqueados)

\* C20 witness: a simular on a walk that had moved and on which a step had
\* failed moved on from where the walk was.
C20_Testigo ==
    /\ llamada.metodo = "simular"
    /\ antes.pasos_realizados >= 1
    /\ antes.intentos_bloqueados >= MAX_INTENTOS_DEFECTO
    /\ pasos_realizados > antes.pasos_realizados
    /\ ~Lanzo
    /\ retorno.camino[Len(antes.camino)] = antes.posicion_actual

====
